---- MODULE Spec2Model ----
(***************************************************************************)
(* A model of the entity-component-system core of bideobame:               *)
(*   - ComponentStorage (core/game.rs, with the removal operations of      *)
(*     core/component_storage.rs),                                         *)
(*   - Entity id generation and the World's entity map (core/game.rs),     *)
(*   - the World's two ordered system lists and their run loops,           *)
(*   - the reference systems (systems/*.rs) on components with fields,     *)
(*   - the host loop App::run (core/app.rs) and the renderer it drives.    *)
(*                                                                         *)
(* A component handle (&ComponentEnum, &mut ComponentEnum) is modelled by  *)
(* the position of the component in its entity's Vec: two handles refer to *)
(* the same stored component iff they are the same position.               *)
(***************************************************************************)
EXTENDS Integers, Sequences, FiniteSets, TLC

VARIABLES
    components,      \* ComponentStorage.components : HashMap<EntityId, Vec<ComponentEnum>>
    entities,        \* World.entities : HashMap<EntityId, Entity> (an Entity holds its id only)
    NEXT_ID,         \* the static AtomicU32 of Entity::generate_id
    fresh,           \* the Entity returned by the latest Entity::new, not yet inserted: <<>> or <<id>>
    issued,          \* history: the ids returned by generate_id so far
    removed,         \* history (SpecWorld): the ids remove_entity has been called on
    last,            \* history: the latest operation `op`, with its arguments (entity `e`,
                     \* kind `k`) and, for a storage operation, whether its target was
                     \* present before it (`had`)
    update_systems,  \* World.update_systems : Vec<Box<dyn System>>
    draw_systems,    \* World.draw_systems : Vec<Box<dyn System>>
    systems,         \* the local `systems` of a run_*_systems call in progress
    pc,              \* position of the run in progress: "idle", "update" or "draw"
    idx,             \* number of iterations the `for system in systems.iter()` loop has done
    invoked,         \* history: the systems run by the current (or latest) run_*_systems call
    started,         \* history: the phase list as it was when that call began
    boxes,           \* number of Box<dyn System> allocated so far (identity of a registration)
    registered,      \* history: every registration so far, in call order, with its phase
    state,           \* World.state : GameState, the frame clock
    steps,           \* history: number of clock advances and system runs made on the world
    renderer,        \* the Renderer as the systems and the host loop observe it
    exiting,         \* the host loop has been asked to exit
    log,             \* the lines written with log::error! / log::warn!
    calls            \* history: the World entry points called for the latest event

vars == <<components, entities, NEXT_ID, fresh, issued, removed, last,
          update_systems, draw_systems, systems, pc, idx, invoked, started, boxes,
          registered, state, steps, renderer, exiting, log, calls>>

storageVars == <<components, removed>>
worldVars   == <<entities, NEXT_ID, fresh, issued>>
systemVars  == <<update_systems, draw_systems, systems, pc, idx, invoked, started, boxes,
                 registered>>
hostVars    == <<state, steps, renderer, exiting, log, calls>>

----------------------------------------------------------------------------
(* Bounds of the model *)

MaxEntities == 2      \* entity ids used as arguments are 0 .. MaxEntities-1, and
                      \* SpecWorld creates at most MaxEntities entities
MaxComponents == 2    \* components held by the whole storage
MaxTypes == 2         \* length of a `required_types` / `types` argument
IdBits == 2           \* width of the id counter in the model (AtomicU32 in the source)
MaxSystems == 3       \* Box<dyn System> registered over both phases
MaxDelta == 1         \* largest frame delta the host passes to advance
MaxAttached == 3      \* components attached by the setup of the frame specifications
MaxSteps == 3         \* clock advances and system runs made on one world
MaxEvents == 2        \* events the host loop dispatches
MaxMeshLen == 2       \* vertices, and indices, of a mesh given to the geometry manager
MaxCalls == 4         \* calls made on one geometry manager
MaxDrawn == 260       \* entities drawn by one MeshRenderer run

\* Stand-ins for f32::MAX and f32::MIN: beyond every coordinate of the model.
F32_MAX == 1000000
F32_MIN == -1000000

----------------------------------------------------------------------------
(* Types *)

ComponentType == {"Mesh", "Transform", "Movement", "Collider"}

\* A ComponentEnum value: a record with its variant tag `kind`.  The storage
\* operations look at the tag only; the components the systems work on carry
\* the fields of their variant as well (see the constructors below).
ComponentEnum == [kind : ComponentType]

component_type(c) == c.kind

EntityIds == 0 .. (MaxEntities - 1)

IdModulus == 2 ^ IdBits

Range(s) == {s[i] : i \in 1 .. Len(s)}

\* All sequences over S of length at most n.
SeqsUpTo(S, n) == UNION {[1 .. m -> S] : m \in 0 .. n}

\* The argument lists a caller can pass as &[ComponentType].
TypeLists == SeqsUpTo(ComponentType, MaxTypes)

\* The orders in which a HashMap with key set S may be iterated.
IterOrders(S) == {o \in [1 .. Cardinality(S) -> S] : Range(o) = S}

----------------------------------------------------------------------------
(* ComponentStorage: pure lookups, as functions of the map `cs` *)

\* Positions 1..Len(vec) in ascending order: Vec::iter / iter_mut.
Positions(vec) == [i \in 1 .. Len(vec) |-> i]

\* Iterator::find over a Vec: the first position whose component has kind k,
\* as an Option: <<>> (None) or <<position>> (Some).
find(vec, k) ==
    IF \E i \in 1 .. Len(vec) : component_type(vec[i]) = k
    THEN <<CHOOSE i \in 1 .. Len(vec) :
              /\ component_type(vec[i]) = k
              /\ \A j \in 1 .. (i - 1) : component_type(vec[j]) # k>>
    ELSE <<>>

get_entity_component_by_type(cs, entity_id, k) ==
    IF entity_id \in DOMAIN cs THEN find(cs[entity_id], k) ELSE <<>>

\* components.iter().any(|c| c.component_type() == *required_type)
any_of_type(vec, required_type) ==
    \E i \in 1 .. Len(vec) : component_type(vec[i]) = required_type

\* A filter that accepts a Vec holding any one of the required kinds.
has_one_required_type(vec, required_types) ==
    \E j \in 1 .. Len(required_types) : any_of_type(vec, required_types[j])

\* required_types.iter().all(|required_type| components.iter().any(..))
has_required_types(vec, required_types) ==
    \A j \in 1 .. Len(required_types) : any_of_type(vec, required_types[j])

\* The map is iterated in `order`; the ids whose Vec passes the filter are
\* collected in that order.
get_entities_with_components(cs, order, required_types) ==
    LET keep(e) == has_required_types(cs[e], required_types)
    IN SelectSeq(order, keep)

\* A fetch driven by the input list: for each requested kind in turn, the
\* position of the first component of that kind.
positions_by_input_order(vec, types) ==
    LET hit(k) == find(vec, k) # <<>>
        present == SelectSeq(types, hit)
    IN [i \in 1 .. Len(present) |-> find(vec, present[i])[1]]

\* components.iter_mut().filter(|c| types.contains(&c.component_type()))
filter_by_types(vec, types) ==
    LET keep(i) == component_type(vec[i]) \in Range(types)
    IN SelectSeq(Positions(vec), keep)

\* The handles returned, as positions of the entity's Vec.
get_components_by_types_mut(cs, entity_id, types) ==
    IF entity_id \in DOMAIN cs THEN filter_by_types(cs[entity_id], types) ELSE <<>>

----------------------------------------------------------------------------
(* ComponentStorage: state changes *)

TotalComponents == LET S == DOMAIN components
                       RECURSIVE Sum(_)
                       Sum(T) == IF T = {} THEN 0
                                 ELSE LET e == CHOOSE x \in T : TRUE
                                      IN Len(components[e]) + Sum(T \ {e})
                   IN Sum(S)

\* entry(entity).or_default(): the entity's Vec, an empty one if it has none.
entry_or_default(cs, entity) == IF entity \in DOMAIN cs THEN cs[entity] ELSE <<>>

\* An insertion that replaces the component of the same kind, if there is one.
push_or_replace(vec, component) ==
    IF \E i \in 1 .. Len(vec) : vec[i].kind = component.kind
    THEN [i \in 1 .. Len(vec) |-> IF vec[i].kind = component.kind THEN component ELSE vec[i]]
    ELSE Append(vec, component)

\* Vec::push
push(vec, component) == Append(vec, component)

\* The map with `entity` bound to `vec` (inserted if absent).
with_entry(cs, entity, vec) ==
    [e \in (DOMAIN cs) \cup {entity} |-> IF e = entity THEN vec ELSE cs[e]]

add_component(entity, component) ==
    /\ components' = with_entry(components, entity,
                                push(entry_or_default(components, entity), component))
    /\ last' = [op |-> "add_component", e |-> entity, k |-> component_type(component),
                had |-> get_entity_component_by_type(components, entity,
                                                     component_type(component)) # <<>>]
    /\ UNCHANGED <<hostVars, removed, worldVars, systemVars>>

\* A removal that deletes only the first component of kind k.
retain_after_first(vec, k) ==
    IF find(vec, k) = <<>> THEN vec
    ELSE LET p == find(vec, k)[1]
         IN SubSeq(vec, 1, p - 1) \o SubSeq(vec, p + 1, Len(vec))

\* A removal whose predicate is inverted: it keeps the components of kind k.
retain_only(vec, k) ==
    LET keep(c) == component_type(c) = k
    IN SelectSeq(vec, keep)

\* components.retain(|component| component.component_type() != component_type)
retain(vec, k) ==
    LET keep(c) == component_type(c) # k
    IN SelectSeq(vec, keep)

remove_component(entity, k) ==
    /\ components' = IF entity \in DOMAIN components
                     THEN [components EXCEPT ![entity] = retain(@, k)]
                     ELSE components
    /\ last' = [op |-> "remove_component", e |-> entity, k |-> k,
                had |-> get_entity_component_by_type(components, entity, k) # <<>>]
    /\ UNCHANGED <<hostVars, removed, worldVars, systemVars>>

\* A removal that empties the entity's Vec and keeps its key.
clear_entry(cs, entity) ==
    [e \in DOMAIN cs |-> IF e = entity THEN <<>> ELSE cs[e]]

\* HashMap::remove
remove_key(cs, entity) == [e \in (DOMAIN cs) \ {entity} |-> cs[e]]

remove_entity(entity) ==
    /\ components' = remove_key(components, entity)
    /\ last' = [op |-> "remove_entity", e |-> entity,
                had |-> entity \in DOMAIN components]
    /\ UNCHANGED <<hostVars, worldVars, systemVars>>

----------------------------------------------------------------------------
(* Entity and the World's entity map *)

\* NEXT_ID.fetch_add(1, SeqCst): returns the old value, the counter wraps
\* around at the width of the integer.
fetch_add(counter, n) == (counter + n) % IdModulus

\* Entity::new(): let id = Self::generate_id(); Self { id }
Entity_new ==
    /\ fresh' = <<NEXT_ID>>
    /\ NEXT_ID' = fetch_add(NEXT_ID, 1)
    /\ issued' = issued \cup {NEXT_ID}
    /\ last' = [op |-> "generate_id", e |-> NEXT_ID]
    /\ UNCHANGED <<hostVars, entities, storageVars, systemVars>>

\* World::insert_entity(entity): self.entities.insert(entity.id, entity)
insert_entity ==
    /\ fresh # <<>>
    /\ entities' = entities \cup {fresh[1]}
    /\ fresh' = <<>>
    /\ last' = [op |-> "insert_entity", e |-> fresh[1]]
    /\ UNCHANGED <<hostVars, NEXT_ID, issued, storageVars, systemVars>>

----------------------------------------------------------------------------
(* Systems: registration and the two run loops *)

SystemNames == {"MeshBufferer", "MovementSystem", "CollisionSystem", "MeshRenderer"}

\* Box::new(system): a registration is a new box, identified by its number.
Box_new(name) == [name |-> name, box |-> boxes]

add_update_system(name) ==
    /\ update_systems' = Append(update_systems, Box_new(name))
    /\ boxes' = boxes + 1
    /\ registered' = Append(registered, [phase |-> "update", system |-> Box_new(name)])
    /\ last' = [op |-> "add_update_system"]
    /\ UNCHANGED <<hostVars, draw_systems, systems, pc, idx, invoked, started, storageVars, worldVars>>

add_draw_system(name) ==
    /\ draw_systems' = Append(draw_systems, Box_new(name))
    /\ boxes' = boxes + 1
    /\ registered' = Append(registered, [phase |-> "draw", system |-> Box_new(name)])
    /\ last' = [op |-> "add_draw_system"]
    /\ UNCHANGED <<hostVars, update_systems, systems, pc, idx, invoked, started, storageVars, worldVars>>

\* let systems = std::mem::take(&mut self.update_systems);
run_update_systems_begin ==
    /\ pc = "idle"
    /\ systems' = update_systems
    /\ update_systems' = <<>>
    /\ pc' = "update"
    /\ idx' = 0
    /\ invoked' = <<>>
    /\ started' = update_systems
    /\ last' = [op |-> "run_update_systems_begin"]
    /\ UNCHANGED <<hostVars, draw_systems, boxes, registered, storageVars, worldVars>>

\* let systems = std::mem::take(&mut self.draw_systems);
run_draw_systems_begin ==
    /\ pc = "idle"
    /\ systems' = draw_systems
    /\ draw_systems' = <<>>
    /\ pc' = "draw"
    /\ idx' = 0
    /\ invoked' = <<>>
    /\ started' = draw_systems
    /\ last' = [op |-> "run_draw_systems_begin"]
    /\ UNCHANGED <<hostVars, update_systems, boxes, registered, storageVars, worldVars>>

\* A loop that walks the list from its end.
iter_rev(list, done) == list[Len(list) - done]

\* systems.iter(): the element the loop reaches after `done` iterations.
iter_next(list, done) == list[done + 1]

\* One iteration of `for system in systems.iter() { system.run(self, renderer); }`.
\* The storage holds no entity while the run loops are stepped one iteration
\* at a time, so the body of each reference system finds nothing to process;
\* the bodies, and what MeshRenderer does to the renderer, are the operators
\* MeshBufferer_run, MovementSystem_run, CollisionSystem_run and
\* MeshRenderer_run below.
system_run ==
    /\ pc \in {"update", "draw"}
    /\ idx < Len(systems)
    /\ invoked' = Append(invoked, iter_next(systems, idx))
    /\ idx' = idx + 1
    /\ last' = [op |-> "system_run"]
    /\ UNCHANGED <<hostVars, update_systems, draw_systems, systems, pc, started, boxes,
                   registered, storageVars, worldVars>>

\* self.update_systems = systems;
run_update_systems_end ==
    /\ pc = "update"
    /\ idx = Len(systems)
    /\ update_systems' = systems
    /\ systems' = <<>>
    /\ pc' = "idle"
    /\ last' = [op |-> "run_update_systems"]
    /\ UNCHANGED <<hostVars, draw_systems, idx, invoked, started, boxes, registered,
                   storageVars, worldVars>>

\* self.draw_systems = systems;
run_draw_systems_end ==
    /\ pc = "draw"
    /\ idx = Len(systems)
    /\ draw_systems' = systems
    /\ systems' = <<>>
    /\ pc' = "idle"
    /\ last' = [op |-> "run_draw_systems"]
    /\ UNCHANGED <<hostVars, update_systems, idx, invoked, started, boxes, registered,
                   storageVars, worldVars>>

----------------------------------------------------------------------------
(* Components with their fields.  An f32 is modelled by an integer (small   *)
(* integers and their sums and products are exact in f32); a Vector3 is a   *)
(* triple.  A model matrix is a translation (rotation zero, scale one), and  *)
(* is written as the vector it translates by.                               *)

Zero3 == <<0, 0, 0>>

vadd(a, b) == <<a[1] + b[1], a[2] + b[2], a[3] + b[3]>>

vscale(v, f) == <<v[1] * f, v[2] * f, v[3] * f>>

\* Mat4::from_translation(position) * Mat4::from_euler(0, 0, 0) * Mat4::from_scale(1, 1, 1)
model_of(position) == position

\* TransformComponent::new(position, [0, 0, 0], [1, 1, 1])
TransformComponent_new(position) ==
    [kind |-> "Transform", position |-> position, model_matrix |-> model_of(position)]

\* TransformComponent::translate: position += translation; update_model_matrix()
translate(transform, translation) ==
    LET position == vadd(transform.position, translation)
    IN  [transform EXCEPT !.position = position, !.model_matrix = model_of(position)]

\* TransformComponent::apply_to_vertex: model_matrix * (vertex, 1), truncated
apply_to_vertex(transform, vertex) == vadd(transform.model_matrix, vertex)

\* MovementComponent::new(velocity, acceleration)
MovementComponent_new(velocity, acceleration) ==
    [kind |-> "Movement", velocity |-> velocity, acceleration |-> acceleration]

\* ColliderComponent::new(): options are <<>> (None) or <<value>> (Some)
ColliderComponent_new ==
    [kind |-> "Collider", aabb |-> <<>>, obb |-> <<>>,
     needs_aabb_update |-> TRUE, needs_obb_update |-> TRUE]

\* ColliderComponent::invalidate_bounds
invalidate_bounds(collider) ==
    [collider EXCEPT !.needs_aabb_update = TRUE, !.needs_obb_update = TRUE]

\* MeshComponent::new(vertices, indices)
MeshComponent_new(vertices, indices) ==
    [kind |-> "Mesh", vertex_buffer |-> <<>>, index_buffer |-> <<>>,
     num_indices |-> Len(indices), needs_rebuffer |-> TRUE,
     last_vertices |-> <<vertices>>, last_indices |-> <<indices>>]

\* MeshComponent::_update(vertices, indices)
Mesh_update(mesh, vertices, indices) ==
    [mesh EXCEPT !.last_vertices = <<vertices>>, !.last_indices = <<indices>>,
                 !.needs_rebuffer = TRUE]

\* The vertex positions and the indices of the mesh the model attaches.
TestVertices == << <<0, 0, 0>>, <<1, 2, 0>>, <<-1, 0, 3>> >>
TestIndices == <<0, 1, 2>>

----------------------------------------------------------------------------
(* The frame clock.  GameState is not among the source files: it is        *)
(* modelled from its uses (world.state().delta_time, state.total_time) and *)
(* from the description of `advance`.                                      *)

GameState_new == [total_time |-> 0, delta_time |-> 0]

\* advance(delta_time): accumulates the total time, stores the frame's delta
GameState_advance(gs, delta_time) ==
    [total_time |-> gs.total_time + delta_time, delta_time |-> delta_time]

\* The deltas the host supplies (delta_seconds >= 0).
DeltaTimes == 0 .. MaxDelta

advance(delta_time) ==
    /\ state' = GameState_advance(state, delta_time)
    /\ steps' = steps + 1
    /\ last' = [op |-> "advance"]
    /\ UNCHANGED <<renderer, exiting, log, calls, storageVars, worldVars, systemVars>>

----------------------------------------------------------------------------
(* The Renderer, as far as the systems and the host loop observe it *)

\* std::mem::size_of::<Vertex>(): position and color of three f32 each and a
\* u32; std::mem::size_of::<u16>().
VertexSize == 28
IndexSize == 2

\* GeometryManager::init: the buffers hold the geometry of get_vertices(false)
\* (100 triangles, each pushing its three vertices twice and three indices);
\* no mesh is tracked.
GeometryManager_init ==
    [num_vertices |-> 100 * 6, num_indices |-> 100 * 3, meshes |-> <<>>]

\* MeshBufferPositions::create_with_vertices for a payload of the given
\* lengths: the mesh is written at the byte offsets the counts give, the
\* counts grow by its lengths and the mesh is tracked.
create_with_vertices(geometry_manager, vertices_len, indices_len) ==
    LET mesh == [vertex_offset |-> geometry_manager.num_vertices * VertexSize,
                 index_offset |-> geometry_manager.num_indices * IndexSize,
                 vertex_length |-> vertices_len,
                 index_length |-> indices_len]
    IN  [geometry_manager EXCEPT !.num_vertices = @ + vertices_len,
                                 !.num_indices = @ + indices_len,
                                 !.meshes = Append(@, mesh)]

\* MeshBufferPositions::remove: the ranges of the mesh are zeroed, the counts
\* shrink by its lengths, and every tracked mesh equal to it is dropped.
MeshBufferPositions_remove(mesh, geometry_manager) ==
    [geometry_manager EXCEPT !.num_vertices = @ - mesh.vertex_length,
                             !.num_indices = @ - mesh.index_length,
                             !.meshes = SelectSeq(@, LAMBDA m : m # mesh)]

\* GeometryManager::remove_at_mesh_index: if let Some(mesh) = meshes.get(index)
get_and_remove(geometry_manager, index) ==
    IF index < Len(geometry_manager.meshes)
    THEN MeshBufferPositions_remove(geometry_manager.meshes[index + 1], geometry_manager)
    ELSE geometry_manager

\* Renderer::new(&window): the surface is configured with the window's size.
Renderer_new ==
    [size |-> <<1, 1>>,           \* Renderer.size, the size the surface is configured with
     buffers |-> 0,               \* wgpu buffers created so far (a handle is its number)
     global_uniforms |-> <<>>,    \* the time written by the latest update_global_uniforms
     acquires |-> 0,              \* calls of surface.get_current_texture() so far
     draws |-> <<>>,              \* the draw commands recorded by the latest MeshRenderer run
     submitted |-> 0,             \* command buffers submitted to the queue so far
     redraw_requested |-> FALSE,  \* window.request_redraw() was called since the last redraw
     configures |-> 0,            \* calls of surface.configure since the construction
     geometry_manager |-> GeometryManager_init]   \* renderer.geometry_manager()

\* Renderer::resize(new_size)
resize(r, new_size) ==
    IF new_size[1] = 0 \/ new_size[2] = 0 THEN r
    ELSE [r EXCEPT !.size = new_size, !.configures = @ + 1]

\* What surface.get_current_texture() returns: a texture or a wgpu::SurfaceError.
SurfaceError == {"Timeout", "Outdated", "Lost", "OutOfMemory"}
TextureResults == {"Ok"} \cup SurfaceError

\* Renderer::get_transform_aligned_size, size_of::<TransformUniforms>() being
\* the 16 f32 of the model matrix.
get_transform_aligned_size ==
    LET align == 256
        unaligned == 16 * 4
    IN  ((unaligned + align - 1) \div align) * align

----------------------------------------------------------------------------
(* MovementSystem *)

\* A body that integrates the velocity first and moves by the new velocity.
MovementSystem_velocity_first(vec, delta_time) ==
    LET m == find(vec, "Movement")
        t == find(vec, "Transform")
    IN  IF m = <<>> THEN vec
        ELSE LET velocity == vadd(vec[m[1]].velocity,
                                  vscale(vec[m[1]].acceleration, delta_time))
                 moved == IF t = <<>> THEN vec
                          ELSE [vec EXCEPT ![t[1]] = translate(@, vscale(velocity, delta_time))]
             IN  [moved EXCEPT ![m[1]].velocity = velocity]

\* A loop body that moves the entity and leaves its Collider alone.
MovementSystem_keep_bounds(vec, delta_time) ==
    LET m == find(vec, "Movement")
        t == find(vec, "Transform")
    IN  IF m = <<>> THEN vec
        ELSE LET velocity == vec[m[1]].velocity
                 acceleration == vec[m[1]].acceleration
                 moved == IF t = <<>> THEN vec
                          ELSE [vec EXCEPT ![t[1]] = translate(@, vscale(velocity, delta_time))]
             IN  [moved EXCEPT ![m[1]].velocity = vadd(@, vscale(acceleration, delta_time))]

\* The body of the loop of MovementSystem::run for one entity, on its Vec.
MovementSystem_entity(vec, delta_time) ==
    LET m == find(vec, "Movement")
        t == find(vec, "Transform")
        c == find(vec, "Collider")
    IN  IF m = <<>> THEN vec                                   \* continue
        ELSE LET velocity == vec[m[1]].velocity
                 acceleration == vec[m[1]].acceleration
                 moved ==
                     IF t = <<>> THEN vec
                     ELSE LET translated ==
                                  [vec EXCEPT ![t[1]] = translate(@, vscale(velocity, delta_time))]
                          IN  IF c = <<>> THEN translated
                              ELSE [translated EXCEPT ![c[1]] = invalidate_bounds(@)]
             IN  [moved EXCEPT ![m[1]].velocity = vadd(@, vscale(acceleration, delta_time))]

\* MovementSystem::run, the map being iterated in `order`: the body runs for
\* each entity of the query (an id occurs once in a query result, and the
\* body changes the Vec of its own entity only).
MovementSystem_run(cs, order, delta_time) ==
    LET entities_to_update ==
            Range(get_entities_with_components(cs, order, <<"Transform", "Movement">>))
    IN  [e \in DOMAIN cs |-> IF e \in entities_to_update
                             THEN MovementSystem_entity(cs[e], delta_time)
                             ELSE cs[e]]

MovementSystem ==
    /\ \E order \in IterOrders(DOMAIN components) :
           components' = MovementSystem_run(components, order, state.delta_time)
    /\ steps' = steps + 1
    /\ last' = [op |-> "MovementSystem"]
    /\ UNCHANGED <<removed, state, renderer, exiting, log, calls, worldVars, systemVars>>

----------------------------------------------------------------------------
(* CollisionSystem *)

Min(S) == CHOOSE x \in S : \A y \in S : x <= y

Max(S) == CHOOSE x \in S : \A y \in S : x >= y

\* CollisionSystem::calculate_aabb: min starts at f32::MAX and max at
\* f32::MIN, and each transformed vertex lowers min / raises max per axis.
calculate_aabb(mesh, transform) ==
    LET vertices == mesh.last_vertices[1]
        transformed == {apply_to_vertex(transform, vertices[i]) : i \in 1 .. Len(vertices)}
        axis(i) == {v[i] : v \in transformed}
    IN  [min |-> [i \in 1 .. 3 |-> Min(axis(i) \cup {F32_MAX})],
         max |-> [i \in 1 .. 3 |-> Max(axis(i) \cup {F32_MIN})]]

\* A loop body that takes the first component of each kind, whatever the
\* fetch returned.
CollisionSystem_by_kind(vec) ==
    LET c == find(vec, "Collider")
        t == find(vec, "Transform")
        m == find(vec, "Mesh")
    IN  IF c # <<>> /\ t # <<>> /\ m # <<>> /\ vec[c[1]].needs_aabb_update
        THEN [vec EXCEPT ![c[1]].aabb = <<calculate_aabb(vec[m[1]], vec[t[1]])>>,
                         ![c[1]].needs_aabb_update = FALSE]
        ELSE vec

\* A loop body that also marks the oriented box as up to date.
CollisionSystem_both_boxes(vec) ==
    LET handles == filter_by_types(vec, <<"Collider", "Transform", "Mesh">>)
    IN  IF /\ Len(handles) = 3
           /\ component_type(vec[handles[1]]) = "Collider"
           /\ component_type(vec[handles[2]]) = "Transform"
           /\ component_type(vec[handles[3]]) = "Mesh"
           /\ vec[handles[1]].needs_aabb_update
        THEN [vec EXCEPT ![handles[1]].aabb =
                             <<calculate_aabb(vec[handles[3]], vec[handles[2]])>>,
                         ![handles[1]].needs_aabb_update = FALSE,
                         ![handles[1]].needs_obb_update = FALSE]
        ELSE vec

\* The body of the first loop of CollisionSystem::run for one entity: the
\* handles come back in the order the components are stored in, and the
\* slice pattern [Collider, Transform, Mesh] matches three handles of these
\* kinds in this order only.
CollisionSystem_entity(vec) ==
    LET handles == filter_by_types(vec, <<"Collider", "Transform", "Mesh">>)
    IN  IF /\ Len(handles) = 3
           /\ component_type(vec[handles[1]]) = "Collider"
           /\ component_type(vec[handles[2]]) = "Transform"
           /\ component_type(vec[handles[3]]) = "Mesh"
           /\ vec[handles[1]].needs_aabb_update
        THEN [vec EXCEPT ![handles[1]].aabb =
                             <<calculate_aabb(vec[handles[3]], vec[handles[2]])>>,
                         ![handles[1]].needs_aabb_update = FALSE]
        ELSE vec

\* CollisionSystem::run, the map being iterated in `order` (its second loop
\* reads the boxes and changes nothing).
CollisionSystem_run(cs, order) ==
    LET matching ==
            Range(get_entities_with_components(cs, order,
                                               <<"Collider", "Transform", "Mesh">>))
    IN  [e \in DOMAIN cs |-> IF e \in matching THEN CollisionSystem_entity(cs[e])
                             ELSE cs[e]]

CollisionSystem ==
    /\ \E order \in IterOrders(DOMAIN components) :
           components' = CollisionSystem_run(components, order)
    /\ steps' = steps + 1
    /\ last' = [op |-> "CollisionSystem"]
    /\ UNCHANGED <<removed, state, renderer, exiting, log, calls, worldVars, systemVars>>

----------------------------------------------------------------------------
(* MeshBufferer *)

\* The stored components the loop of MeshBufferer::run visits, as
\* <<entity, position>> pairs: the Vecs in the order the map is iterated in,
\* each Vec front to back.
RECURSIVE slots_of(_, _)
slots_of(cs, order) ==
    IF order = <<>> THEN <<>>
    ELSE [i \in 1 .. Len(cs[Head(order)]) |-> <<Head(order), i>>] \o slots_of(cs, Tail(order))

\* A test that uploads every mesh on every run.
must_upload_every_run(component) == component_type(component) = "Mesh"

\* if let Some(mesh_component) = ..downcast_mut::<MeshComponent>()
\*   if mesh_component.vertex_buffer.is_none() { if mesh_component.needs_rebuffer {
must_upload(component) ==
    /\ component_type(component) = "Mesh"
    /\ component.vertex_buffer = <<>>
    /\ component.needs_rebuffer

\* The upload: two buffers are created and filled, the mesh takes their
\* handles, its flag is cleared and its index count refreshed.
upload(mesh, created) ==
    [mesh EXCEPT !.vertex_buffer = <<created + 1>>, !.index_buffer = <<created + 2>>,
                 !.needs_rebuffer = FALSE, !.num_indices = Len(mesh.last_indices[1])]

\* MeshBufferer::run over `slots`, `created` buffers existing before it: the
\* storage and the number of buffers after it.
RECURSIVE MeshBufferer_run(_, _, _)
MeshBufferer_run(cs, slots, created) ==
    IF slots = <<>> THEN [components |-> cs, buffers |-> created]
    ELSE LET e == Head(slots)[1]
             i == Head(slots)[2]
         IN  IF must_upload(cs[e][i])
             THEN MeshBufferer_run([cs EXCEPT ![e][i] = upload(@, created)],
                                   Tail(slots), created + 2)
             ELSE MeshBufferer_run(cs, Tail(slots), created)

MeshBufferer ==
    /\ \E order \in IterOrders(DOMAIN components) :
           LET done == MeshBufferer_run(components, slots_of(components, order),
                                        renderer.buffers)
           IN  /\ components' = done.components
               /\ renderer' = [renderer EXCEPT !.buffers = done.buffers]
               /\ last' = [op |-> "MeshBufferer",
                           uploads |-> (done.buffers - renderer.buffers) \div 2]
    /\ steps' = steps + 1
    /\ UNCHANGED <<removed, state, exiting, log, calls, worldVars, systemVars>>

\* A caller changes the geometry of the mesh stored at position i of entity e.
mutate_mesh(e, i, vertices, indices) ==
    /\ e \in DOMAIN components
    /\ i \in 1 .. Len(components[e])
    /\ component_type(components[e][i]) = "Mesh"
    /\ components' = [components EXCEPT ![e][i] = Mesh_update(@, vertices, indices)]
    /\ steps' = steps + 1
    /\ last' = [op |-> "_update", e |-> e, i |-> i]
    /\ UNCHANGED <<removed, state, renderer, exiting, log, calls, worldVars, systemVars>>

----------------------------------------------------------------------------
(* MeshRenderer *)

\* A loop that draws every entity of the query, with or without buffers.
RECURSIVE draw_unbuffered(_, _, _)
draw_unbuffered(cs, ids, current_transform_offset) ==
    IF ids = <<>> THEN <<>>
    ELSE LET vec == cs[Head(ids)]
             mesh == vec[find(vec, "Mesh")[1]]
             transform == vec[find(vec, "Transform")[1]]
         IN  <<[entity |-> Head(ids),
                vertex_buffer |-> mesh.vertex_buffer,
                index_buffer |-> mesh.index_buffer,
                num_indices |-> mesh.num_indices,
                offset |-> current_transform_offset,
                written |-> transform.model_matrix]>>
             \o draw_unbuffered(cs, Tail(ids),
                                current_transform_offset + get_transform_aligned_size)

\* The loop of MeshRenderer::run over the entities of the query: for an
\* entity whose mesh has both buffers, the model matrix is written to the
\* transform uniform buffer at the current offset, a draw is recorded that
\* binds this offset, and the offset moves on by one aligned slot.
RECURSIVE draw_entities(_, _, _)
draw_entities(cs, ids, current_transform_offset) ==
    IF ids = <<>> THEN <<>>
    ELSE LET vec == cs[Head(ids)]
             m == find(vec, "Mesh")
             t == find(vec, "Transform")
         IN  IF m # <<>> /\ t # <<>> /\ vec[m[1]].vertex_buffer # <<>>
                /\ vec[m[1]].index_buffer # <<>>
             THEN <<[entity |-> Head(ids),
                     vertex_buffer |-> vec[m[1]].vertex_buffer,
                     index_buffer |-> vec[m[1]].index_buffer,
                     num_indices |-> vec[m[1]].num_indices,
                     offset |-> current_transform_offset,
                     written |-> vec[t[1]].model_matrix]>>
                  \o draw_entities(cs, Tail(ids),
                                   current_transform_offset + get_transform_aligned_size)
             ELSE draw_entities(cs, Tail(ids), current_transform_offset)

\* The content of the transform uniform buffer at `offset` when the command
\* buffer is submitted: what the latest write_buffer at this offset wrote.
uniform_at(commands, offset) ==
    LET writes == {i \in 1 .. Len(commands) : commands[i].offset = offset}
    IN  commands[Max(writes)].written

\* The draws as the queue executes them: each reads its model matrix from
\* the uniform buffer at the offset it bound.
executed(commands) ==
    [i \in 1 .. Len(commands) |->
        [entity |-> commands[i].entity,
         vertex_buffer |-> commands[i].vertex_buffer,
         index_buffer |-> commands[i].index_buffer,
         num_indices |-> commands[i].num_indices,
         offset |-> commands[i].offset,
         model |-> uniform_at(commands, commands[i].offset)]]

\* A run that gives up drawing once an acquisition has failed.
MeshRenderer_run_once(cs, order, texture, gs, r) ==
    [r EXCEPT !.global_uniforms = <<gs.total_time, gs.delta_time>>,
              !.acquires = IF r.acquires > r.submitted THEN @ ELSE @ + 1,
              !.draws = <<>>]

\* MeshRenderer::run: the renderer after the run (the World is only read).
\* `texture` is what get_current_texture returns.
MeshRenderer_run(cs, order, texture, gs, r) ==
    LET uniforms_written == [r EXCEPT !.global_uniforms = <<gs.total_time, gs.delta_time>>,
                                      !.acquires = @ + 1]
    IN  IF texture # "Ok"
        THEN [uniforms_written EXCEPT !.draws = <<>>]                     \* Err(_) => return
        ELSE [uniforms_written EXCEPT
                 !.draws = executed(draw_entities(
                               cs, get_entities_with_components(cs, order,
                                                                <<"Mesh", "Transform">>), 0)),
                 !.submitted = @ + 1,
                 !.redraw_requested = TRUE]

MeshRenderer ==
    /\ \E order \in IterOrders(DOMAIN components), texture \in TextureResults :
           /\ renderer' = MeshRenderer_run(components, order, texture, state, renderer)
           /\ last' = [op |-> "MeshRenderer", texture |-> texture]
    /\ steps' = steps + 1
    /\ UNCHANGED <<state, exiting, log, calls, storageVars, worldVars, systemVars>>

----------------------------------------------------------------------------
(* The host loop: App::run *)

\* World::test_world, on the World that World::new built: the ground and the
\* cube with their components (coordinates in half units, scale omitted),
\* three update systems and one draw system.
test_world ==
    /\ last.op = "new"
    /\ entities' = {0, 1}
    /\ NEXT_ID' = fetch_add(fetch_add(NEXT_ID, 1), 1)
    /\ issued' = {0, 1}
    /\ components' =
          (0 :> << MeshComponent_new(TestVertices, TestIndices),
                   TransformComponent_new(<<0, -4, 0>>) >>)
          @@ (1 :> << MeshComponent_new(TestVertices, TestIndices),
                      TransformComponent_new(<<0, 1, -1>>),
                      MovementComponent_new(<<0, -2, 0>>, Zero3) >>)
    /\ update_systems' = << [name |-> "MeshBufferer", box |-> 0],
                            [name |-> "MovementSystem", box |-> 1],
                            [name |-> "CollisionSystem", box |-> 2] >>
    /\ draw_systems' = << [name |-> "MeshRenderer", box |-> 3] >>
    /\ boxes' = 4
    /\ registered' = [i \in 1 .. 3 |-> [phase |-> "update", system |-> update_systems'[i]]]
                        \o << [phase |-> "draw", system |-> draw_systems'[1]] >>
    /\ last' = [op |-> "test_world"]
    /\ UNCHANGED <<fresh, removed, systems, pc, idx, invoked, started, hostVars>>

\* system.run(world, renderer) for the system called `name`, on the pair w of
\* the component storage and the renderer.
run_system(name, w, order, texture, gs) ==
    CASE name = "MeshBufferer" ->
             LET done == MeshBufferer_run(w.components, slots_of(w.components, order),
                                          w.renderer.buffers)
             IN  [components |-> done.components,
                  renderer |-> [w.renderer EXCEPT !.buffers = done.buffers]]
      [] name = "MovementSystem" ->
             [w EXCEPT !.components = MovementSystem_run(@, order, gs.delta_time)]
      [] name = "CollisionSystem" ->
             [w EXCEPT !.components = CollisionSystem_run(@, order)]
      [] name = "MeshRenderer" ->
             [w EXCEPT !.renderer = MeshRenderer_run(w.components, order, texture, gs, @)]

\* for system in systems.iter() { system.run(self, renderer); }
RECURSIVE run_each(_, _, _, _, _)
run_each(list, w, order, texture, gs) ==
    IF list = <<>> THEN w
    ELSE run_each(Tail(list), run_system(Head(list).name, w, order, texture, gs),
                  order, texture, gs)

\* World::run_systems(renderer) is not among the source files; it is
\* modelled as the frame of the description: the clock advances, then the
\* update phase runs, then the draw phase.
run_systems(w, gs, delta_time, order, texture) ==
    LET clock == GameState_advance(gs, delta_time)
        updated == run_each(update_systems, w, order, texture, clock)
        drawn == run_each(draw_systems, updated, order, texture, clock)
    IN  [components |-> drawn.components, renderer |-> drawn.renderer, state |-> clock,
         calls |-> <<"advance", "run_update_systems", "run_draw_systems">>,
         invoked |-> update_systems \o draw_systems]

\* render(): get_current_texture()?, then one render pass is encoded,
\* submitted and presented.
render(r, texture) ==
    IF texture = "Ok"
    THEN [r EXCEPT !.acquires = @ + 1, !.submitted = @ + 1]
    ELSE [r EXCEPT !.acquires = @ + 1]

\* The host after a handler: the renderer, the exit request, and the
\* transcript of log lines and exit requests in the order they were made.
Host(r, exit, transcript) == [renderer |-> r, exiting |-> exit, log |-> transcript]

\* A handler of the render result that exits on every error.
on_render_result_fatal(h, result) ==
    IF result = "Ok" THEN h
    ELSE Host(h.renderer, TRUE, h.log \o <<"error: OutOfMemory", "exit">>)

\* match renderer.render() { Ok(_) => (), Err(Lost | Outdated) => resize(size()),
\*   Err(OutOfMemory) => { log::error; exit() }, Err(Timeout) => log::warn }
on_render_result(h, result) ==
    CASE result = "Ok" -> h
      [] result \in {"Lost", "Outdated"} ->
             Host(resize(h.renderer, h.renderer.size), h.exiting, h.log)
      [] result = "OutOfMemory" ->
             Host(h.renderer, TRUE, h.log \o <<"error: OutOfMemory", "exit">>)
      [] result = "Timeout" ->
             Host(h.renderer, h.exiting, Append(h.log, "warn: Surface timeout"))

\* The events the closure receives.  `size` is the argument of Resized and
\* `result` what the surface answers to render() on RedrawRequested.
WindowSizes == {<<0, 0>>, <<2, 1>>}
Events ==
    {[event |-> e] : e \in {"KeyReleased Escape", "KeyReleased KeyQ", "KeyReleased",
                            "KeyPressed", "CloseRequested", "Other"}}
    \cup {[event |-> "Resized", size |-> z] : z \in WindowSizes}
    \cup {[event |-> "RedrawRequested", result |-> t] : t \in TextureResults}

\* match event { ... }: the arms of the closure.
handle_event(h, ev) ==
    CASE ev.event \in {"KeyReleased Escape", "CloseRequested"} ->
             Host(h.renderer, TRUE, Append(h.log, "exit"))
      [] ev.event = "KeyReleased KeyQ" ->
             Host([h.renderer EXCEPT !.geometry_manager = get_and_remove(@, 0)],
                  h.exiting, h.log)
      [] ev.event = "Resized" -> Host(resize(h.renderer, ev.size), h.exiting, h.log)
      [] ev.event = "RedrawRequested" ->
             on_render_result(
                 Host(render([h.renderer EXCEPT !.redraw_requested = TRUE], ev.result),
                      h.exiting, h.log),
                 ev.result)
      [] OTHER -> h

\* One call of the closure of event_loop.run: the systems run, then the event
\* is matched.
dispatch(ev, delta_time, texture) ==
    /\ last.op # "new"
    /\ ~exiting
    /\ \E order \in IterOrders(DOMAIN components) :
          \E frame \in {run_systems([components |-> components, renderer |-> renderer],
                                    state, delta_time, order, texture)} :
              \E h \in {handle_event(Host(frame.renderer, exiting, log), ev)} :
                  /\ components' = frame.components
                  /\ state' = frame.state
                  /\ calls' = frame.calls
                  /\ invoked' = frame.invoked
                  /\ renderer' = h.renderer
                  /\ exiting' = h.exiting
                  /\ log' = h.log
    /\ steps' = steps + 1
    /\ last' = [op |-> "event"] @@ ev
    /\ UNCHANGED <<removed, worldVars, update_systems, draw_systems, systems, pc, idx,
                   started, boxes, registered>>

----------------------------------------------------------------------------
(* Specifications *)

\* World::new(), ComponentStorage::default(), NEXT_ID = AtomicU32::new(0)
Init ==
    /\ components = <<>>
    /\ entities = {}
    /\ NEXT_ID = 0
    /\ fresh = <<>>
    /\ issued = {}
    /\ removed = {}
    /\ last = [op |-> "new"]
    /\ update_systems = <<>>
    /\ draw_systems = <<>>
    /\ systems = <<>>
    /\ pc = "idle"
    /\ idx = 0
    /\ invoked = <<>>
    /\ started = <<>>
    /\ boxes = 0
    /\ registered = <<>>
    /\ state = GameState_new
    /\ steps = 0
    /\ renderer = Renderer_new
    /\ exiting = FALSE
    /\ log = <<>>
    /\ calls = <<>>

\* The component storage alone.
Next ==
    \/ \E e \in EntityIds, c \in ComponentEnum :
           TotalComponents < MaxComponents /\ add_component(e, c)
    \/ \E e \in EntityIds, k \in ComponentType : remove_component(e, k)
    \/ \E e \in EntityIds : remove_entity(e) /\ UNCHANGED removed

Spec == Init /\ [][Next]_vars

\* The World and its component storage: entities are created and inserted,
\* components are added and removed.
NextWorld ==
    \/ (NEXT_ID < MaxEntities /\ Entity_new)
    \/ insert_entity
    \/ \E e \in EntityIds, c \in ComponentEnum :
           TotalComponents < MaxComponents /\ add_component(e, c)
    \/ \E e \in EntityIds, k \in ComponentType : remove_component(e, k)
    \/ \E e \in EntityIds : remove_entity(e) /\ removed' = removed \cup {e}

SpecWorld == Init /\ [][NextWorld]_vars

\* Id generation alone, over the whole range of the counter.
NextIds ==
    \/ Entity_new
    \/ insert_entity

SpecIds == Init /\ [][NextIds]_vars

\* Entities are created and given components, and entities that were created
\* are destroyed: `removed` holds ids that were issued before their removal.
NextStale ==
    \/ (NEXT_ID < MaxEntities /\ Entity_new)
    \/ insert_entity
    \/ \E e \in EntityIds, c \in ComponentEnum :
           TotalComponents < MaxComponents /\ add_component(e, c)
    \/ \E e \in EntityIds \cap issued : remove_entity(e) /\ removed' = removed \cup {e}

SpecStale == Init /\ [][NextStale]_vars

\* The components the setup attaches, as World::test_world builds them:
\* each with its constructor.
Attachable ==
    { MeshComponent_new(TestVertices, TestIndices),
      TransformComponent_new(Zero3),
      MovementComponent_new(<<1, 0, 0>>, <<0, -1, 0>>),
      ColliderComponent_new }

\* Setup: components are attached before the first frame.
attach ==
    \E e \in EntityIds, c \in Attachable :
        steps = 0 /\ TotalComponents < MaxAttached /\ add_component(e, c)

\* Movement and collision over frames: the clock advances and the two
\* systems run, in any order and any number of times.
NextMotion ==
    \/ attach
    \/ \E delta_time \in DeltaTimes : steps < MaxSteps /\ advance(delta_time)
    \/ (steps < MaxSteps /\ MovementSystem)
    \/ (steps < MaxSteps /\ CollisionSystem)

SpecMotion == Init /\ [][NextMotion]_vars

\* The update systems in the order World::test_world registers them.
TestUpdateSystems ==
    << [name |-> "MeshBufferer"], [name |-> "MovementSystem"], [name |-> "CollisionSystem"] >>

\* World::run_update_systems with the systems of test_world registered: each
\* system runs once, in registration order, on the storage the one before
\* it left.
update_phase ==
    /\ \E order \in IterOrders(DOMAIN components) :
           \E done \in {run_each(TestUpdateSystems,
                                 [components |-> components, renderer |-> renderer],
                                 order, "Ok", state)} :
               /\ components' = done.components
               /\ renderer' = done.renderer
    /\ steps' = steps + 1
    /\ last' = [op |-> "run_update_systems"]
    /\ UNCHANGED <<removed, state, exiting, log, calls, worldVars, systemVars>>

\* The two entities of test_world (ground and cube).
TestEntities == {0, 1}

\* The bodies a setup builds, each the list of components it attaches to
\* one entity, in order: a collider with transform and mesh in the order the
\* collision system fetches them and in another order, a moving body, a
\* mover without a collider, a body whose mesh has no vertices, a collider
\* that cannot move, and a body with two meshes.
BodyPlans ==
    LET Mesh == MeshComponent_new(TestVertices, TestIndices)
        Empty == MeshComponent_new(<<>>, <<>>)
        Transform == TransformComponent_new(Zero3)
        Movement == MovementComponent_new(<<1, 0, 0>>, <<0, -1, 0>>)
        Collider == ColliderComponent_new
    IN  { <<Collider, Transform, Mesh, Movement>>,
          <<Transform, Collider, Mesh>>,
          <<Transform, Movement>>,
          <<Collider, Transform, Empty>>,
          <<Collider, Movement>>,
          <<Collider, Transform, Mesh, Mesh>> }

\* Setup: a component is attached to a body under construction.
attach_body ==
    \E e \in TestEntities, plan \in BodyPlans :
        /\ steps = 0
        /\ Len(entry_or_default(components, e)) < Len(plan)
        /\ SubSeq(plan, 1, Len(entry_or_default(components, e)))
               = entry_or_default(components, e)
        /\ add_component(e, plan[Len(entry_or_default(components, e)) + 1])

\* Bodies over frames: the clock advances, the movement and collision
\* systems run singly, and the whole update phase runs.
NextPhysics ==
    \/ attach_body
    \/ \E delta_time \in DeltaTimes : steps < MaxSteps /\ advance(delta_time)
    \/ (steps < MaxSteps /\ MovementSystem)
    \/ (steps < MaxSteps /\ CollisionSystem)
    \/ (steps < MaxSteps /\ update_phase)

SpecPhysics == Init /\ [][NextPhysics]_vars

\* The components of the entities to draw: meshes, and transforms at two places.
Drawable ==
    { MeshComponent_new(TestVertices, TestIndices),
      TransformComponent_new(Zero3),
      TransformComponent_new(<<1, 0, 0>>) }

attach_drawable ==
    \E e \in EntityIds, c \in Drawable :
        steps = 0 /\ TotalComponents < MaxAttached /\ add_component(e, c)

\* Buffering and drawing over frames: MeshBufferer and MeshRenderer run, and
\* a caller replaces the geometry of a mesh.
NextRender ==
    \/ attach_drawable
    \/ (steps < MaxSteps /\ MeshBufferer)
    \/ (steps < MaxSteps /\ MeshRenderer)
    \/ \E e \in EntityIds, i \in 1 .. MaxAttached :
           steps < MaxSteps /\ mutate_mesh(e, i, <<Zero3>>, <<0>>)

SpecRender == Init /\ [][NextRender]_vars

\* The application: the world is set up, then the loop dispatches events
\* until it is asked to exit.  For the acquisition made by MeshRenderer one
\* error stands for all, since the system does not tell them apart (Err(_)).
NextApp ==
    \/ test_world
    \/ \E ev \in Events, delta_time \in DeltaTimes, texture \in {"Ok", "Timeout"} :
           steps < MaxEvents /\ dispatch(ev, delta_time, texture)

SpecApp == Init /\ [][NextApp]_vars

\* std::mem::size_of::<TransformUniforms>(): model is [f32; 16]
TransformUniforms_size == 16 * 4

\* The transform uniform buffer Renderer::new creates.
transform_uniform_buffer_size == TransformUniforms_size * 1024

\* MeshRenderer::run up to its loop: current_transform_offset = 0 and the
\* render pass begins.
begin_render_pass ==
    /\ last' = [op |-> "begin_render_pass", current_transform_offset |-> 0]
    /\ steps' = 0
    /\ UNCHANGED <<state, renderer, exiting, log, calls, storageVars, worldVars, systemVars>>

\* One pass of the loop of MeshRenderer::run for an entity that is drawn:
\* the uniforms are written at the current offset, the draw binds it, and
\* the offset moves on by one aligned slot (a u32, which MaxDrawn slots do
\* not fill).  `steps` counts the entities drawn before this one.
draw_indexed ==
    /\ last.op \in {"begin_render_pass", "draw_indexed"}
    /\ last' = [op |-> "draw_indexed",
                k |-> steps,
                written_at |-> last.current_transform_offset,
                current_transform_offset |->
                    last.current_transform_offset + get_transform_aligned_size]
    /\ steps' = steps + 1
    /\ UNCHANGED <<state, renderer, exiting, log, calls, storageVars, worldVars, systemVars>>

\* The loop of one MeshRenderer run over up to MaxDrawn drawn entities.
NextOffsets ==
    \/ (last.op = "new" /\ begin_render_pass)
    \/ (steps < MaxDrawn /\ draw_indexed)

SpecOffsets == Init /\ [][NextOffsets]_vars

\* GeometryManager::insert_mesh(vertices, indices)
insert_mesh(vertices_len, indices_len) ==
    /\ renderer' = [renderer EXCEPT !.geometry_manager =
                        create_with_vertices(@, vertices_len, indices_len)]
    /\ steps' = steps + 1
    /\ last' = [op |-> "insert_mesh"]
    /\ UNCHANGED <<state, exiting, log, calls, storageVars, worldVars, systemVars>>

\* GeometryManager::remove_mesh(mesh), for a mesh the manager tracks
remove_mesh(mesh) ==
    /\ mesh \in Range(renderer.geometry_manager.meshes)
    /\ renderer' = [renderer EXCEPT !.geometry_manager = MeshBufferPositions_remove(mesh, @)]
    /\ steps' = steps + 1
    /\ last' = [op |-> "remove_mesh"]
    /\ UNCHANGED <<state, exiting, log, calls, storageVars, worldVars, systemVars>>

\* GeometryManager::remove_at_mesh_index(index)
remove_at_mesh_index(index) ==
    /\ renderer' = [renderer EXCEPT !.geometry_manager = get_and_remove(@, index)]
    /\ steps' = steps + 1
    /\ last' = [op |-> "remove_at_mesh_index"]
    /\ UNCHANGED <<state, exiting, log, calls, storageVars, worldVars, systemVars>>

\* The geometry manager alone: meshes of up to MaxMeshLen vertices and
\* indices are inserted and removed.
NextGeometry ==
    \/ \E vertices_len, indices_len \in 1 .. MaxMeshLen :
           steps < MaxCalls /\ insert_mesh(vertices_len, indices_len)
    \/ \E index \in 1 .. MaxCalls :
           /\ steps < MaxCalls
           /\ index <= Len(renderer.geometry_manager.meshes)
           /\ remove_mesh(renderer.geometry_manager.meshes[index])
    \/ \E index \in 0 .. MaxCalls : steps < MaxCalls /\ remove_at_mesh_index(index)

SpecGeometry == Init /\ [][NextGeometry]_vars

\* A registration is made between runs (by the setup routine) or by a system
\* from inside its run, which has &mut World: that is after the loop of the
\* run in progress has invoked at least one system.
CanRegister == boxes < MaxSystems /\ (pc = "idle" \/ idx >= 1)

\* System registration and the run loops.
NextSystems ==
    \/ \E n \in SystemNames : CanRegister /\ add_update_system(n)
    \/ \E n \in SystemNames : CanRegister /\ add_draw_system(n)
    \/ run_update_systems_begin
    \/ system_run
    \/ run_update_systems_end
    \/ run_draw_systems_begin
    \/ run_draw_systems_end

SpecSystems == Init /\ [][NextSystems]_vars

----------------------------------------------------------------------------
(* Properties of the component storage *)

\* The ids a query for `required_types` returns when the map is iterated in `order`.
Query(order, required_types) ==
    get_entities_with_components(components, order, required_types)

Orders == IterOrders(DOMAIN components)

\* The lookup of kind k on entity e, as World::get_entity_component_by_type does it.
Get(e, k) == get_entity_component_by_type(components, e, k)

\* The ids a query for [k] on the storage map cs returns under at least one
\* of the iteration orders `orders`.
Found(cs, orders, k) ==
    UNION {Range(get_entities_with_components(cs, o, <<k>>)) : o \in orders}

\* The number of components of kind k stored for entity e.
CountOfType(e, k) ==
    Cardinality({i \in 1 .. Len(components[e]) : component_type(components[e][i]) = k})

\* C1: right after add_component(E, c) with c of kind K, the lookup of K on E
\* returns c itself (the component pushed last), and E is in the query for [K].
C1_AddThenGetReturnsAdded ==
    last.op = "add_component" =>
        /\ Get(last.e, last.k) = <<Len(components[last.e])>>
        /\ \A o \in Orders : last.e \in Range(Query(o, <<last.k>>))

\* C2: right after remove_component(E, K) the lookup of K on E returns nothing
\* and E is not in the query for [K]; and whenever the lookup of K on E
\* returns nothing, every step that is not an add_component of kind K to E
\* leaves the lookup returning nothing and E outside the query for [K].
C2_RemovedKindStaysAbsent ==
    [][\A k \in ComponentType :
          \A found_after \in {Found(components', IterOrders(DOMAIN components'), k)} :
              LET absent_after(e) == /\ get_entity_component_by_type(components', e, k) = <<>>
                                     /\ e \notin found_after
              IN /\ (last'.op = "remove_component" /\ last'.k = k) => absent_after(last'.e)
                 /\ \A e \in EntityIds :
                        (/\ Get(e, k) = <<>>
                         /\ ~(last'.op = "add_component" /\ last'.e = e /\ last'.k = k))
                        => absent_after(e)]_vars

\* A remove_component has just removed a component of an entity that keeps another one.
C2_Witness ==
    /\ last.op = "remove_component"
    /\ last.had
    /\ last.e \in DOMAIN components
    /\ Len(components[last.e]) >= 1

\* C3: right after remove_entity(E) the lookup of every kind on E returns
\* nothing and E is in no query result, for every required kind list, the
\* empty one included.
C3_RemovedEntityUnresolvable ==
    last.op = "remove_entity" =>
        /\ \A k \in ComponentType : Get(last.e, k) = <<>>
        /\ \A req \in TypeLists, o \in Orders : last.e \notin Range(Query(o, req))

\* A remove_entity has just removed an entity that had a collection, and
\* another entity is still stored.
C3_Witness ==
    /\ last.op = "remove_entity"
    /\ last.had
    /\ DOMAIN components # {}

\* C4: the query with the empty required list returns exactly the entities
\* that have been created (inserted into the World) and not removed.
C4_EmptyQueryIsLiveEntities ==
    \A o \in Orders : Range(Query(o, <<>>)) = entities \ removed

\* C5: the query for [K1, K2] returns exactly the ids returned both for [K1]
\* and for [K2], each of them once.
C5_QueryIsIntersection ==
    \A k1 \in ComponentType, k2 \in ComponentType, o \in Orders :
        LET both == Query(o, <<k1, k2>>)
        IN /\ Range(both) = Range(Query(o, <<k1>>)) \cap Range(Query(o, <<k2>>))
           /\ Len(both) = Cardinality(Range(both))

\* Two kinds are each owned by some entity, and one entity owns the first
\* of them without the second: a partial match the query has to leave out.
C5_Witness ==
    \E k1 \in ComponentType, k2 \in ComponentType, o \in Orders :
        /\ k1 # k2
        /\ Range(Query(o, <<k2>>)) # {}
        /\ Range(Query(o, <<k1>>)) \ Range(Query(o, <<k2>>)) # {}

\* C6: every call of Entity::generate_id returns an id strictly greater than
\* every id returned by an earlier call.
C6_IdsStrictlyIncrease ==
    [][last'.op = "generate_id" => \A i \in issued : last'.e > i]_vars

\* C7: the storage never holds two components of one kind for one entity.
C7_OneComponentPerKind ==
    \A e \in DOMAIN components, k \in ComponentType : CountOfType(e, k) <= 1

\* The handles get_components_by_types_mut returns for entity e and `types`.
Handles(e, types) == get_components_by_types_mut(components, e, types)

\* The kind of the component the h-th handle of `handles` refers to.
HandleType(e, handles, h) == component_type(components[e][handles[h]])

\* C8: the multi-kind fetch returns its handles in the order of the input
\* list: the handle for types[i] precedes the handle for types[j] whenever
\* i < j; a kind the entity does not own contributes no handle, and an
\* unknown entity yields an empty result.
C8_HandlesFollowInputOrder ==
    \A e \in EntityIds, types \in TypeLists :
        LET handles == Handles(e, types)
        IN /\ e \notin DOMAIN components => handles = <<>>
           /\ e \in DOMAIN components =>
                /\ \A h \in 1 .. Len(handles) :
                       /\ handles[h] \in 1 .. Len(components[e])
                       /\ HandleType(e, handles, h) \in Range(types)
                /\ \A i \in 1 .. Len(types), j \in 1 .. Len(types),
                      a \in 1 .. Len(handles), b \in 1 .. Len(handles) :
                       (/\ i < j
                        /\ types[i] # types[j]
                        /\ HandleType(e, handles, a) = types[i]
                        /\ HandleType(e, handles, b) = types[j])
                       => a < b

\* C9: no two handles returned by one call of the multi-kind fetch refer to
\* the same stored component, also when the input list names a kind twice.
C9_HandlesNeverAlias ==
    \A e \in EntityIds, types \in TypeLists :
        LET handles == Handles(e, types)
        IN \A a \in 1 .. Len(handles), b \in 1 .. Len(handles) :
               a # b => handles[a] # handles[b]

\* A fetch whose input list names one kind twice returns two handles.
C9_Witness ==
    \E e \in DOMAIN components, types \in TypeLists :
        /\ Len(types) = 2
        /\ types[1] = types[2]
        /\ Len(Handles(e, types)) = 2

----------------------------------------------------------------------------
(* Properties of the system lists *)

RegisteredFor(phase) ==
    LET of_phase == SelectSeq(registered, LAMBDA r : r.phase = phase)
    IN  [i \in 1..Len(of_phase) |-> of_phase[i].system]

\* C11: registration is append-only: outside a run of its own phase (whose
\* loop holds the list), a phase's list is exactly the systems registered for
\* it so far, each at the position its registration gave it, so that every
\* later run starts from all of them; this includes a system registered by
\* another system while a run is in progress.
C11_RegistrationAppendOnly ==
    /\ pc # "update" => update_systems = RegisteredFor("update")
    /\ pc # "draw" => draw_systems = RegisteredFor("draw")

----------------------------------------------------------------------------
(* Properties of the reference systems *)

\* The first component of kind k of the Vec: the one every lookup resolves to.
First(vec, k) == vec[find(vec, k)[1]]

\* C13: a run of MovementSystem moves every entity that has a Transform and
\* a Movement by its velocity of before the run times the frame's delta,
\* then adds acceleration times delta to the velocity, and leaves the
\* acceleration alone; from position (0,0,0), velocity (1,0,0), acceleration
\* (0,-1,0) and delta 1 it gives position (1,0,0) and velocity (1,-1,0).
C13_MovementEulerStep ==
    [][last'.op = "MovementSystem" =>
        /\ \A e \in DOMAIN components :
              LET vec == components[e]
                  after == components'[e]
                  dt == state.delta_time
              IN  (find(vec, "Transform") # <<>> /\ find(vec, "Movement") # <<>>) =>
                    /\ First(after, "Transform").position =
                           vadd(First(vec, "Transform").position,
                                vscale(First(vec, "Movement").velocity, dt))
                    /\ First(after, "Movement").velocity =
                           vadd(First(vec, "Movement").velocity,
                                vscale(First(vec, "Movement").acceleration, dt))
                    /\ First(after, "Movement").acceleration =
                           First(vec, "Movement").acceleration
        /\ MovementSystem_entity(<<TransformComponent_new(Zero3),
                                   MovementComponent_new(<<1, 0, 0>>, <<0, -1, 0>>)>>, 1)
              = <<TransformComponent_new(<<1, 0, 0>>),
                  MovementComponent_new(<<1, -1, 0>>, <<0, -1, 0>>)>>
    ]_vars

\* MovementSystem has run with delta 1 on an entity that was at (0,0,0) with
\* velocity (1,0,0) and acceleration (0,-1,0).
C13_Witness ==
    /\ last.op = "MovementSystem"
    /\ state.delta_time = 1
    /\ \E e \in DOMAIN components :
          /\ find(components[e], "Transform") # <<>>
          /\ find(components[e], "Movement") # <<>>
          /\ First(components[e], "Transform").position = <<1, 0, 0>>
          /\ First(components[e], "Movement").velocity = <<1, -1, 0>>

\* The smallest box around the vertices of `mesh` moved by `transform`.
BoxAround(mesh, transform) ==
    LET moved == {vadd(transform.position, mesh.last_vertices[1][i]) :
                     i \in 1 .. Len(mesh.last_vertices[1])}
    IN  [min |-> [i \in 1 .. 3 |-> Min({v[i] : v \in moved})],
         max |-> [i \in 1 .. 3 |-> Max({v[i] : v \in moved})]]

\* C14: one run of CollisionSystem gives every entity that has a Collider, a
\* Transform and a Mesh and whose needs_aabb_update is set the box of its
\* transformed vertices (per-axis minimum and maximum) and clears the flag,
\* in whatever order the three components were attached.
C14_AabbRecomputed ==
    [][last'.op = "CollisionSystem" =>
        \A e \in DOMAIN components :
            LET vec == components[e]
                after == components'[e]
            IN  (/\ find(vec, "Collider") # <<>>
                 /\ find(vec, "Transform") # <<>>
                 /\ find(vec, "Mesh") # <<>>
                 /\ First(vec, "Collider").needs_aabb_update) =>
                   /\ First(after, "Collider").aabb =
                          <<BoxAround(First(vec, "Mesh"), First(vec, "Transform"))>>
                   /\ ~First(after, "Collider").needs_aabb_update
    ]_vars

\* The <<entity, position>> pairs of the stored meshes.
Meshes(cs) ==
    {s \in UNION {{<<e, i>> : i \in 1 .. Len(cs[e])} : e \in DOMAIN cs} :
        component_type(cs[s[1]][s[2]]) = "Mesh"}

\* C15: a mesh is uploaded at most once per dirty mark: a run of MeshBufferer
\* uploads only meshes whose needs_rebuffer is set and clears the flag of
\* each mesh it uploads, creating two buffers per upload; a mesh whose flag
\* is clear is left as it is by the run; and the flag of a stored mesh is
\* set again by a mutation of that mesh only.
C15_UploadOncePerDirtyMark ==
    [][/\ last'.op = "MeshBufferer" =>
            LET uploaded == {s \in Meshes(components) :
                                \/ components'[s[1]][s[2]].vertex_buffer
                                      # components[s[1]][s[2]].vertex_buffer
                                \/ components'[s[1]][s[2]].index_buffer
                                      # components[s[1]][s[2]].index_buffer}
            IN  /\ \A s \in uploaded :
                      /\ components[s[1]][s[2]].needs_rebuffer
                      /\ ~components'[s[1]][s[2]].needs_rebuffer
                /\ \A s \in Meshes(components) :
                      ~components[s[1]][s[2]].needs_rebuffer =>
                          components'[s[1]][s[2]] = components[s[1]][s[2]]
                /\ renderer'.buffers = renderer.buffers + 2 * Cardinality(uploaded)
       /\ \A s \in Meshes(components) :
              (/\ ~components[s[1]][s[2]].needs_rebuffer
               /\ components'[s[1]][s[2]].needs_rebuffer)
              => (last'.op = "_update" /\ last'.e = s[1] /\ last'.i = s[2])
    ]_vars

\* A run of MeshBufferer has uploaded nothing, on a storage holding a mesh that
\* an earlier run uploaded and that was not changed since.
C15_Witness ==
    /\ last.op = "MeshBufferer"
    /\ last.uploads = 0
    /\ \E s \in Meshes(components) :
          /\ components[s[1]][s[2]].vertex_buffer # <<>>
          /\ ~components[s[1]][s[2]].needs_rebuffer

----------------------------------------------------------------------------
(* Properties of destroyed entities and of removals *)

\* C16: the id of a destroyed entity stays unresolvable: once remove_entity
\* was executed on it, no lookup finds a component for it, no query returns
\* it, and no later creation returns it.
C16_DestroyedIdStaysUnresolvable ==
    /\ \A e \in removed : \A k \in ComponentType :
           /\ Get(e, k) = <<>>
           /\ e \notin Found(components, Orders, k)
    /\ last.op = "generate_id" => last.e \notin removed

\* The components of a Vec that are not of kind k, in their order.
OtherKinds(vec, k) ==
    LET other(c) == component_type(c) # k
    IN SelectSeq(vec, other)

----------------------------------------------------------------------------
(* Properties of the draw phase *)

\* Entity e owns a Mesh and a Transform, and its Mesh has both buffer handles.
Renderable(e) ==
    /\ e \in DOMAIN components
    /\ find(components[e], "Mesh") # <<>>
    /\ find(components[e], "Transform") # <<>>
    /\ First(components[e], "Mesh").vertex_buffer # <<>>
    /\ First(components[e], "Mesh").index_buffer # <<>>

\* The positions of the draw commands issued for entity e by the latest run.
DrawsOf(e) == {i \in 1 .. Len(renderer.draws) : renderer.draws[i].entity = e}

C19_FailedAcquireSkipsDraw ==
    [][last'.op = "MeshRenderer" =>
        /\ renderer'.acquires = renderer.acquires + 1
        /\ last'.texture \in SurfaceError =>
              /\ renderer'.draws = <<>>
              /\ renderer'.submitted = renderer.submitted
              /\ components' = components
              /\ entities' = entities
              /\ update_systems' = update_systems
              /\ draw_systems' = draw_systems
              /\ state' = state
    ]_vars

\* A run has failed to acquire the texture while an entity was ready to be
\* drawn, after an earlier run.
C19_Witness ==
    /\ last.op = "MeshRenderer"
    /\ last.texture \in SurfaceError
    /\ renderer.acquires >= 2
    /\ \E e \in EntityIds : Renderable(e)

----------------------------------------------------------------------------
(* Properties of the host loop *)

\* C12: the host loop makes one frame per frame tick: on a redraw event the
\* clock is advanced, then the update phase runs, then the draw phase, each
\* once and in this order, and on any other event no system runs.
C12_OneFramePerTick ==
    last.op = "event" =>
        calls = IF last.event = "RedrawRequested"
                THEN <<"advance", "run_update_systems", "run_draw_systems">>
                ELSE <<>>

\* C20: of the answers of the renderer to a redraw, out of memory alone makes
\* the loop exit, and its error line is logged before the exit is requested;
\* a lost or outdated surface is configured again with the size it has, a
\* timeout is logged as a warning, and after either the loop runs on with a
\* redraw requested.
C20_OnlyOutOfMemoryExits ==
    [][(last'.op = "event" /\ last'.event = "RedrawRequested") =>
        /\ exiting' <=> (last'.result = "OutOfMemory")
        /\ last'.result = "OutOfMemory" =>
              log' = log \o <<"error: OutOfMemory", "exit">>
        /\ last'.result \in {"Lost", "Outdated"} =>
              /\ renderer'.configures = renderer.configures + 1
              /\ renderer'.size = renderer.size
              /\ log' = log
        /\ last'.result = "Timeout" =>
              /\ log' = Append(log, "warn: Surface timeout")
              /\ renderer'.configures = renderer.configures
        /\ last'.result \in {"Lost", "Outdated", "Timeout"} => renderer'.redraw_requested
    ]_vars

\* A redraw is rendered by a loop that logged a timeout for an earlier one.
C20_Witness ==
    /\ last.op = "event"
    /\ last.event = "RedrawRequested"
    /\ last.result = "Ok"
    /\ log = <<"warn: Surface timeout">>
    /\ ~exiting

----------------------------------------------------------------------------
(* Properties of insertion *)

\* C21: add_component(E, c) appends: E has one component more, c is the last
\* one, the components E had are unchanged and in their places (also when
\* one of them has the kind of c), E gets a Vec if it had none, and the Vec
\* of every other entity is unchanged.
C21_AddAppends ==
    [][last'.op = "add_component" =>
        LET e == last'.e
            before == entry_or_default(components, e)
            after == components'[e]
        IN  /\ DOMAIN components' = (DOMAIN components) \cup {e}
            /\ Len(after) = Len(before) + 1
            /\ SubSeq(after, 1, Len(before)) = before
            /\ after[Len(after)] = [kind |-> last'.k]
            /\ \A x \in (DOMAIN components) \ {e} : components'[x] = components[x]
    ]_vars

\* A component was added to an entity that already had one of its kind, and
\* the entity has both.
C21_Witness ==
    /\ last.op = "add_component"
    /\ last.had
    /\ CountOfType(last.e, last.k) = 2

----------------------------------------------------------------------------
(* Properties of the bodies over frames *)

\* C22: after one run of MovementSystem every entity that owns a Transform,
\* a Movement and a Collider has needs_aabb_update and needs_obb_update set
\* on that Collider, and the Colliders of an entity lacking a Transform or a
\* Movement are left as they were.
C22_MovementInvalidatesBounds ==
    [][last'.op = "MovementSystem" =>
        \A e \in DOMAIN components :
            LET vec == components[e]
                after == components'[e]
                colliders == {i \in 1 .. Len(vec) : component_type(vec[i]) = "Collider"}
            IN  IF find(vec, "Transform") # <<>> /\ find(vec, "Movement") # <<>>
                THEN find(vec, "Collider") # <<>> =>
                         /\ First(after, "Collider").needs_aabb_update
                         /\ First(after, "Collider").needs_obb_update
                ELSE \A i \in colliders : after[i] = vec[i]
    ]_vars

\* A MovementSystem run has just set again the flag that a CollisionSystem
\* run had cleared: the moved entity holds a computed box and a set flag.
C22_Witness ==
    /\ last.op = "MovementSystem"
    /\ \E e \in DOMAIN components :
           /\ find(components[e], "Transform") # <<>>
           /\ find(components[e], "Movement") # <<>>
           /\ find(components[e], "Collider") # <<>>
           /\ First(components[e], "Collider").aabb # <<>>
           /\ First(components[e], "Collider").needs_aabb_update

----------------------------------------------------------------------------
(* Properties of re-buffering *)

\* C23: every mesh whose needs_rebuffer is set when MeshBufferer runs has
\* after the run its flag cleared and buffer handles filled by this run from
\* its current payload, whether it had no handles before or handles made
\* stale by _update.
C23_DirtyMeshIsUploaded ==
    [][last'.op = "MeshBufferer" =>
        \A s \in Meshes(components) :
            LET before == components[s[1]][s[2]]
                after == components'[s[1]][s[2]]
            IN  before.needs_rebuffer =>
                    /\ ~after.needs_rebuffer
                    /\ after.vertex_buffer # <<>> /\ after.vertex_buffer[1] > renderer.buffers
                    /\ after.index_buffer # <<>> /\ after.index_buffer[1] > renderer.buffers
                    /\ after.num_indices = Len(before.last_indices[1])
    ]_vars

----------------------------------------------------------------------------
(* Properties of skipped entities *)

\* The fetch of the three kinds from `vec` gives exactly a Collider, a
\* Transform and a Mesh, in this order.
FetchMatches(vec) ==
    LET handles == filter_by_types(vec, <<"Collider", "Transform", "Mesh">>)
    IN  /\ Len(handles) = 3
        /\ component_type(vec[handles[1]]) = "Collider"
        /\ component_type(vec[handles[2]]) = "Transform"
        /\ component_type(vec[handles[3]]) = "Mesh"

----------------------------------------------------------------------------
(* Properties of the effect of a collision run *)

\* C25: a run of CollisionSystem changes nothing but the aabb and the
\* needs_aabb_update of Colliders: every Transform, Mesh and Movement is as
\* before, no entity or component is added or removed, the clock and the
\* renderer are untouched, and a Collider whose needs_aabb_update is clear
\* keeps its aabb.
C25_CollisionTouchesBoxesOnly ==
    [][last'.op = "CollisionSystem" =>
        /\ DOMAIN components' = DOMAIN components
        /\ UNCHANGED <<entities, state, renderer, removed>>
        /\ \A e \in DOMAIN components :
              LET vec == components[e]
                  after == components'[e]
              IN  /\ Len(after) = Len(vec)
                  /\ \A i \in 1 .. Len(vec) :
                        IF component_type(vec[i]) = "Collider"
                        THEN /\ after[i] = [vec[i] EXCEPT
                                                !.aabb = after[i].aabb,
                                                !.needs_aabb_update = after[i].needs_aabb_update]
                             /\ ~vec[i].needs_aabb_update => after[i] = vec[i]
                        ELSE after[i] = vec[i]
    ]_vars

\* A CollisionSystem run has computed the box of an entity that had moved.
C25_Witness ==
    /\ last.op = "CollisionSystem"
    /\ \E e \in DOMAIN components :
           /\ FetchMatches(components[e])
           /\ First(components[e], "Transform").position # Zero3
           /\ First(components[e], "Collider").aabb # <<>>
           /\ ~First(components[e], "Collider").needs_aabb_update

----------------------------------------------------------------------------
(* Properties of the geometry manager *)

\* The byte ranges [from, to) of two meshes in one buffer share a byte.
Overlap(from1, to1, from2, to2) == from1 < to2 /\ from2 < to1

\* C26: after any sequence of insert_mesh, remove_mesh and
\* remove_at_mesh_index no two tracked meshes occupy overlapping ranges of
\* the vertex buffer or of the index buffer; in particular no two tracked
\* meshes have the same offsets.
C26_TrackedRangesDisjoint ==
    LET meshes == renderer.geometry_manager.meshes
    IN  \A i, j \in 1 .. Len(meshes) :
            i # j =>
                /\ meshes[i].vertex_offset # meshes[j].vertex_offset
                /\ meshes[i].index_offset # meshes[j].index_offset
                /\ ~Overlap(meshes[i].vertex_offset,
                            meshes[i].vertex_offset + meshes[i].vertex_length * VertexSize,
                            meshes[j].vertex_offset,
                            meshes[j].vertex_offset + meshes[j].vertex_length * VertexSize)
                /\ ~Overlap(meshes[i].index_offset,
                            meshes[i].index_offset + meshes[i].index_length * IndexSize,
                            meshes[j].index_offset,
                            meshes[j].index_offset + meshes[j].index_length * IndexSize)

----------------------------------------------------------------------------
(* Properties of the World's entity map *)

\* C27: in every state reached by World operations, each entity id that
\* owns components in the storage is the id of an Entity record of the
\* World's entity map.
C27_OwnersAreInserted == DOMAIN components \subseteq entities

----------------------------------------------------------------------------
(* Properties of the computed boxes *)

\* C28: a Collider's aabb, whenever a CollisionSystem run has left one, is a
\* well-formed box: min[i] <= max[i] on each of the three axes, whatever the
\* payload of the mesh, a mesh with no vertices included.
C28_BoxIsWellFormed ==
    \A e \in DOMAIN components :
        \A i \in 1 .. Len(components[e]) :
            (component_type(components[e][i]) = "Collider" /\ components[e][i].aabb # <<>>) =>
                \A axis \in 1 .. 3 :
                    components[e][i].aabb[1].min[axis] <= components[e][i].aabb[1].max[axis]

----------------------------------------------------------------------------
(* Properties of the transform uniform offsets *)

\* C29: within one MeshRenderer run the k-th drawn entity (k = 0, 1, ...)
\* writes its uniforms at offset k * get_transform_aligned_size(), and for
\* every number of drawn entities the size_of(TransformUniforms) bytes
\* written there lie inside the transform uniform buffer of
\* size_of(TransformUniforms) * 1024 bytes.
C29_WritesStayInsideBuffer ==
    last.op = "draw_indexed" =>
        /\ last.written_at = last.k * get_transform_aligned_size
        /\ last.written_at + TransformUniforms_size <= transform_uniform_buffer_size

----------------------------------------------------------------------------
(* Properties of the update phase *)

\* C30: with the update systems registered in the order MeshBufferer,
\* MovementSystem, CollisionSystem, at the end of every run_update_systems
\* every entity that owns a Collider, a Transform and a Mesh has
\* needs_aabb_update clear.
C30_BoundsResolvedWithinFrame ==
    [][last'.op = "run_update_systems" =>
        \A e \in DOMAIN components' :
            has_required_types(components'[e], <<"Collider", "Transform", "Mesh">>) =>
                ~First(components'[e], "Collider").needs_aabb_update
    ]_vars

====
